---- MODULE Spec2Model ----
(***************************************************************************)
(* The custom print order of addons/printing_custom/models/custom_order.py *)
(* as a state machine: the table of persisted orders, the product          *)
(* catalogue's list prices, the counter of the reference sequence and the  *)
(* outcome of the latest call.                                             *)
(*                                                                         *)
(* Values.  Python strings are TLA+ strings.  A Char, Binary or Selection  *)
(* field that is unset (False) is the empty string: the code only tests    *)
(* such fields for truth or uses them as a dictionary key.  Prices and     *)
(* fees are integers (every fee of the code is a whole number).  A vals    *)
(* dictionary is a function from field names to values.  The fields that   *)
(* carry no behaviour (customer_id, custom_color, custom_color_code,       *)
(* design_filename, notes) are left out of the order record.               *)
(***************************************************************************)
EXTENDS Integers, Sequences, FiniteSets, TLC

VARIABLES
    orders,       \* the persisted rows of printing.custom.order, by id
    list_price,   \* product.product -> list_price
    seq_next,     \* next number of the sequence 'printing.custom.order'
    by_sequence,  \* ids of the orders whose name came from the sequence
    last          \* the latest call: operation, arguments and outcome

vars == <<orders, list_price, seq_next, by_sequence, last>>

\* ------------------------------------------------------------------ bounds
MaxOrders == 1       \* rows of the table when every field is exercised
MaxReferences == 2   \* rows of the table when only references are exercised

\* -------------------------------------------------------- program constants
CustomTextSize == 50       \* custom_text: size=50
CustomTextLimit == 50      \* _check_custom_text_length: len(...) > 50
TextFee == 5               \* fee += 5.0
DesignFee == 10            \* fee += 10.0
DefaultQuantity == 1       \* quantity: default=1
FirstNumber == 1           \* the comment of create: PRINT/001 is the first

QuantityError == "Quantity must be greater than 0!"
CustomTextError == "Custom text cannot exceed 50 characters!"
Ok == "ok"

\* ------------------------------------------------------------------ inputs
Products == {"p1", "p2"}
Prices == {10, 20}
ShortText == "Hi"
LongText == "aaaaaaaaaaaaaaaaaaaaaaaaaaaaaaaaaaaaaaaaaaaaaaaaaaa"   \* 51 characters
DesignBytes == "PNG"
SuppliedName == "REF-7"

Sizes == {"small", "medium", "large", "xlarge"}

\* vals.get(key, default)
Get(vals, key, default) == IF key \in DOMAIN vals THEN vals[key] ELSE default

\* A dictionary that may or may not hold one key.
Opt(key, values) == {<<>>} \cup {key :> v : v \in values}

\* ------------------------------------------------------- field declarations
\* default= of the declared fields; a field declared without one is unset.
Defaults ==
    [name |-> "New", product_id |-> "", custom_text |-> "", size |-> "medium",
     design_file |-> "", quantity |-> DefaultQuantity, state |-> "draft",
     customization_fee |-> 0, total_price |-> 0]

\* custom_text = fields.Char(size=50): a Char field cuts the value it is
\* given to its size when the value is assigned.
ConvertCustomText(value) ==
    SubSeq(value, 1,
           IF Len(value) < CustomTextSize THEN Len(value) ELSE CustomTextSize)

Convert(field, value) ==
    IF field = "custom_text" THEN ConvertCustomText(value) ELSE value

\* base_price = fields.Float(related='product_id.list_price'): not stored,
\* read from the product when it is read.
base_price(order, prices) == prices[order.product_id]

\* ------------------------------------------------------------ computed fields
size_fees == [small |-> 0, medium |-> 5, large |-> 10, xlarge |-> 15]

\* size_fees.get(order.size, 0.0)
SizeFeeLargest(size) ==
    IF size \in DOMAIN size_fees THEN size_fees["xlarge"] ELSE 0
SizeFee(size) == IF size \in DOMAIN size_fees THEN size_fees[size] ELSE 0

_compute_customization_fee(order) ==
    [order EXCEPT !.customization_fee =
        (IF order.custom_text # "" THEN TextFee ELSE 0)
      + (IF order.design_file # "" THEN DesignFee ELSE 0)
      + SizeFee(order.size)]

_compute_total_price(order, prices) ==
    [order EXCEPT !.total_price =
        (base_price(order, prices) + order.customization_fee) * order.quantity]

\* @api.depends: the fee is recomputed when one of its three inputs is
\* assigned, the total when the fee, the product (base_price) or the
\* quantity is.
FeeDepends == {"custom_text", "design_file", "size"}
TotalDepends == {"product_id", "quantity"}

RecomputeOnQuantityOnly(order, touched, prices) ==
    LET withFee == IF touched \cap FeeDepends # {}
                   THEN _compute_customization_fee(order) ELSE order
    IN  IF "quantity" \in touched
        THEN _compute_total_price(withFee, prices) ELSE withFee
Recompute(order, touched, prices) ==
    LET withFee == IF touched \cap FeeDepends # {}
                   THEN _compute_customization_fee(order) ELSE order
    IN  IF touched \cap (FeeDepends \cup TotalDepends) # {}
        THEN _compute_total_price(withFee, prices) ELSE withFee

\* ------------------------------------------------------------------ validation
_check_quantity_negative(order) ==
    IF order.quantity < 0 THEN QuantityError ELSE Ok
_check_quantity(order) == IF order.quantity <= 0 THEN QuantityError ELSE Ok

_check_custom_text_length(order) ==
    IF order.custom_text # "" /\ Len(order.custom_text) > CustomTextLimit
    THEN CustomTextError ELSE Ok

\* @api.constrains: a check runs when its field is among the assigned ones;
\* the first failure is raised.
Validate(order, touched) ==
    IF "quantity" \in touched /\ _check_quantity(order) # Ok
    THEN _check_quantity(order)
    ELSE IF "custom_text" \in touched /\ _check_custom_text_length(order) # Ok
    THEN _check_custom_text_length(order)
    ELSE Ok

\* The record an assignment of vals makes of order, before it is checked.
Assign(order, vals, prices) ==
    Recompute([f \in DOMAIN order |->
                  IF f \in DOMAIN vals THEN Convert(f, vals[f]) ELSE order[f]],
              DOMAIN vals, prices)

NoCall ==
    [op |-> "none", id |-> 0, vals |-> <<>>, error |-> Ok, got |-> "", prev |-> ""]

Init ==
    /\ orders = <<>>
    /\ list_price = [p \in Products |-> 10]
    /\ seq_next = FirstNumber
    /\ by_sequence = {}
    /\ last = NoCall

\* ------------------------------------------------------- sequence generator
\* ir.sequence.next_by_code('printing.custom.order'): the reference made of
\* the counter's number (PRINT/001, PRINT/002, ...).
next_by_code(number) == "PRINT/" \o ToString(number)

\* What a call of next_by_code may return: nothing ("") when no sequence
\* answers, or the reference of the counter's number.
SequenceAnswers(limit) ==
    {""} \cup (IF seq_next - FirstNumber < limit
               THEN {next_by_code(seq_next)} ELSE {})

\* -------------------------------------------------------------------- create
\* if vals.get('name', 'New') == 'New':
AsksSequence(vals) == Get(vals, "name", "New") = "New"

\* vals['name'] = next_by_code(...) or 'New'; got is what next_by_code gave.
referenceAlwaysNew(vals, got) ==
    IF AsksSequence(vals) THEN "New" ELSE vals["name"]
reference(vals, got) ==
    IF AsksSequence(vals)
    THEN (IF got # "" THEN got ELSE "New")
    ELSE vals["name"]

\* super().create(vals): the declared defaults for the fields vals leaves
\* out, the assignment of the others, and the stored computed fields.
NewRecordNotComputed(vals, prices) ==
    [f \in DOMAIN Defaults |->
        IF f \in DOMAIN vals THEN Convert(f, vals[f]) ELSE Defaults[f]]
NewRecord(vals, prices) ==
    _compute_total_price(
        _compute_customization_fee(
            [f \in DOMAIN Defaults |->
                IF f \in DOMAIN vals THEN Convert(f, vals[f]) ELSE Defaults[f]]),
        prices)

\* create(vals).  got is what next_by_code returned when create called it.
\* A failure of super().create rolls the transaction back; the counter of
\* the sequence is rolled back with it (a 'no_gap' sequence) or stays
\* advanced (a 'standard' one).
create(vals, got, limit) ==
    /\ Len(orders) < limit
    /\ LET advanced == IF got # "" THEN seq_next + 1 ELSE seq_next
           record == NewRecord(("name" :> reference(vals, got)) @@ vals,
                               list_price)
           error == Validate(record, DOMAIN record)
           id == Len(orders) + 1
       IN  /\ orders' = IF error = Ok THEN Append(orders, record) ELSE orders
           /\ seq_next' \in IF error = Ok THEN {advanced} ELSE {seq_next, advanced}
           /\ by_sequence' = IF error = Ok /\ got # ""
                             THEN by_sequence \cup {id} ELSE by_sequence
           /\ last' = [op |-> "create", id |-> IF error = Ok THEN id ELSE 0,
                       vals |-> vals, error |-> error, got |-> got, prev |-> ""]
    /\ UNCHANGED list_price

Create(valsSet, limit) ==
    \E vals \in valsSet :
        \E got \in IF AsksSequence(vals) THEN SequenceAnswers(limit) ELSE {""} :
            create(vals, got, limit)

\* --------------------------------------------------------------------- write
\* write(vals) on one record: assign, recompute, check, and keep the result
\* only when no check fails.
WrittenUnchecked(id, vals) ==
    [error |-> Validate(Assign(orders[id], vals, list_price), DOMAIN vals),
     orders |-> [orders EXCEPT ![id] = Assign(orders[id], vals, list_price)]]
Written(id, vals) ==
    LET record == Assign(orders[id], vals, list_price)
        error == Validate(record, DOMAIN vals)
    IN  [error |-> error,
         orders |-> IF error = Ok THEN [orders EXCEPT ![id] = record] ELSE orders]

write(id, vals) ==
    /\ orders' = Written(id, vals).orders
    /\ last' = [op |-> "write", id |-> id, vals |-> vals,
                error |-> Written(id, vals).error, got |-> "", prev |-> ""]
    /\ UNCHANGED <<list_price, seq_next, by_sequence>>

Write(valsSet) == \E id \in 1..Len(orders), vals \in valsSet : write(id, vals)

\* ------------------------------------------------------------ button actions
\* self.write({'state': ...}); return True
Button(id, op, vals) ==
    /\ orders' = Written(id, vals).orders
    /\ last' = [op |-> op, id |-> id, vals |-> vals,
                error |-> Written(id, vals).error, got |-> "",
                prev |-> orders[id].state]
    /\ UNCHANGED <<list_price, seq_next, by_sequence>>

action_confirm(id) == Button(id, "action_confirm", [state |-> "confirmed"])

action_start_production(id) ==
    Button(id, "action_start_production", [state |-> "production"])

action_mark_done_as_production(id) ==
    Button(id, "action_mark_done", [state |-> "production"])
action_mark_done(id) == Button(id, "action_mark_done", [state |-> "done"])

action_cancel(id) == Button(id, "action_cancel", [state |-> "cancel"])

action_reset_to_draft(id) ==
    Button(id, "action_reset_to_draft", [state |-> "draft"])

Confirm == \E id \in 1..Len(orders) : action_confirm(id)
StartProduction == \E id \in 1..Len(orders) : action_start_production(id)
MarkDone == \E id \in 1..Len(orders) : action_mark_done(id)
Cancel == \E id \in 1..Len(orders) : action_cancel(id)
ResetToDraft == \E id \in 1..Len(orders) : action_reset_to_draft(id)

\* ------------------------------------------------------------ product catalogue
\* The product's list_price is written: base_price is related to it, and
\* total_price depends on base_price, so the total of every order of the
\* product is recomputed.
SetListPrice ==
    \E product \in Products, price \in Prices :
        /\ list_price[product] # price
        /\ list_price' = [list_price EXCEPT ![product] = price]
        /\ orders' = [i \in 1..Len(orders) |->
                         IF orders[i].product_id = product
                         THEN _compute_total_price(orders[i], list_price')
                         ELSE orders[i]]
        /\ last' = [op |-> "set_list_price", id |-> 0,
                    vals |-> [product_id |-> product, list_price |-> price],
                    error |-> Ok, got |-> "", prev |-> ""]
        /\ UNCHANGED <<seq_next, by_sequence>>

\* ------------------------------------------------------------ the whole system
CreateVals ==
    {n @@ p @@ t @@ d @@ s @@ q @@ st :
        n \in Opt("name", {"New", "", SuppliedName}),
        p \in {"product_id" :> x : x \in Products},
        t \in Opt("custom_text", {ShortText, LongText}),
        d \in Opt("design_file", {DesignBytes}),
        s \in Opt("size", {"xlarge"}),
        q \in Opt("quantity", {0, 2}),
        st \in Opt("state", {"done"})}

WriteVals ==
    (  {"custom_text" :> v : v \in {"", ShortText, LongText}}
  \cup {"design_file" :> v : v \in {"", DesignBytes}}
  \cup {"size" :> v : v \in Sizes \cup {""}}
  \cup {"quantity" :> v : v \in {-1, 0, 1, 2}}
  \cup {"product_id" :> v : v \in Products}
  \cup {("quantity" :> q) @@ ("custom_text" :> t) :
            q \in {0, 2}, t \in {"", ShortText}})

Next ==
    \/ Create(CreateVals, MaxOrders)
    \/ Write(WriteVals)
    \/ Confirm
    \/ StartProduction
    \/ MarkDone
    \/ Cancel
    \/ ResetToDraft
    \/ SetListPrice

Spec == Init /\ [][Next]_vars

\* ---------------------------------------------- the system, by group of inputs
\* The same operations, each specification with the inputs that bear on its
\* claims.

\* Pricing: every priced field, the checks and the product's price.
PricingCreateVals ==
    {p @@ t @@ d @@ s @@ q @@ st :
        p \in {"product_id" :> x : x \in Products},
        t \in Opt("custom_text", {ShortText, LongText}),
        d \in Opt("design_file", {DesignBytes}),
        s \in Opt("size", {"xlarge"}),
        q \in Opt("quantity", {0, 2}),
        st \in Opt("state", {"done"})}

PricingWriteVals ==
    (  {"custom_text" :> v : v \in {"", ShortText, LongText}}
  \cup {"design_file" :> v : v \in {"", DesignBytes}}
  \cup {"size" :> v : v \in {"", "xlarge"}}
  \cup {"quantity" :> v : v \in {-1, 0, 1, 2}}
  \cup {"product_id" :> v : v \in Products}
  \cup {("quantity" :> 0) @@ ("custom_text" :> ShortText),
        ("quantity" :> 2) @@ ("custom_text" :> "")})

NextPricing ==
    \/ Create(PricingCreateVals, MaxOrders)
    \/ Write(PricingWriteVals)
    \/ Cancel
    \/ SetListPrice

SpecPricing == Init /\ [][NextPricing]_vars

\* Workflow: the five buttons on orders created in any state.
WorkflowCreateVals ==
    {p @@ q @@ st :
        p \in {"product_id" :> "p1"},
        q \in Opt("quantity", {0}),
        st \in Opt("state", {"done"})}

WorkflowWriteVals == {"quantity" :> v : v \in {0, 2}}

NextWorkflow ==
    \/ Create(WorkflowCreateVals, MaxOrders)
    \/ Write(WorkflowWriteVals)
    \/ Confirm
    \/ StartProduction
    \/ MarkDone
    \/ Cancel
    \/ ResetToDraft

SpecWorkflow == Init /\ [][NextWorkflow]_vars

\* References: the name create gives, with and without the sequence.
ReferenceCreateVals ==
    {n @@ p @@ q :
        n \in Opt("name", {"New", "", SuppliedName}),
        p \in {"product_id" :> "p1"},
        q \in Opt("quantity", {0})}

ReferenceWriteVals == {"quantity" :> v : v \in {0, 2}}

NextReferences ==
    \/ Create(ReferenceCreateVals, MaxReferences)
    \/ Write(ReferenceWriteVals)
    \/ Confirm

SpecReferences == Init /\ [][NextReferences]_vars

\* The fee alone: _compute_customization_fee applied to a record of any
\* text, design file and size, the sizes outside the table included.
Text50 == ConvertCustomText(LongText)
FeeTexts == {"", "a", ShortText, Text50}
FeeSizes == Sizes \cup {"", "xxl", "XL"}

InitFee ==
    /\ orders \in
          {<<[Defaults EXCEPT !.product_id = "p1", !.custom_text = t,
                              !.design_file = d, !.size = s]>> :
              t \in FeeTexts, d \in {"", DesignBytes}, s \in FeeSizes}
    /\ list_price = [p \in Products |-> 10]
    /\ seq_next = FirstNumber
    /\ by_sequence = {}
    /\ last = NoCall

ComputeFee ==
    /\ last.op = "none"
    /\ orders' = [orders EXCEPT ![1] = _compute_customization_fee(orders[1])]
    /\ last' = [NoCall EXCEPT !.op = "_compute_customization_fee", !.id = 1]
    /\ UNCHANGED <<list_price, seq_next, by_sequence>>

NextFee == ComputeFee

SpecFee == InitFee /\ [][NextFee]_vars

\* ===================================================================== claims
\* The fee table as the specification states it.
Surcharge(size) ==
    CASE size = "small" -> 0
      [] size = "medium" -> 5
      [] size = "large" -> 10
      [] size = "xlarge" -> 15
      [] OTHER -> 0

ExpectedFee(text, design, size) ==
    (IF Len(text) > 0 THEN 5 ELSE 0) + (IF design # "" THEN 10 ELSE 0)
  + Surcharge(size)

ButtonTarget ==
    [action_confirm |-> "confirmed", action_start_production |-> "production",
     action_mark_done |-> "done", action_cancel |-> "cancel",
     action_reset_to_draft |-> "draft"]

\* C1: on every existing order, whatever its state, each of the five buttons
\* can be pressed, succeeds and leaves the order in the button's target state.
TransitionsReachTarget ==
    /\ last.op \in DOMAIN ButtonTarget =>
          /\ last.error = Ok
          /\ orders[last.id].state = ButtonTarget[last.op]
    /\ \A id \in 1..Len(orders) :
          /\ ENABLED action_confirm(id)
          /\ ENABLED action_start_production(id)
          /\ ENABLED action_mark_done(id)
          /\ ENABLED action_cancel(id)
          /\ ENABLED action_reset_to_draft(id)

\* A cancelled order was confirmed.
ConfirmedFromCancel ==
    /\ last.op = "action_confirm"
    /\ last.prev = "cancel"
    /\ orders[last.id].state = "confirmed"

\* C2: every persisted order has quantity > 0.
QuantityPositive == \A i \in 1..Len(orders) : orders[i].quantity > 0

\* A write of a quantity <= 0 was refused on an order of quantity 2.
NonPositiveQuantityRefused ==
    /\ Len(orders) = 1
    /\ last.op = "write"
    /\ last.vals = [quantity |-> 0]
    /\ last.error = QuantityError
    /\ orders[1].quantity = 2

\* C3: every persisted order's customization_fee is the fee of its text,
\* design file and size, and its total_price is (base_price + fee) * quantity
\* at the product's current list price.
PricesConsistent ==
    \A i \in 1..Len(orders) :
        /\ orders[i].customization_fee =
              ExpectedFee(orders[i].custom_text, orders[i].design_file,
                          orders[i].size)
        /\ orders[i].total_price =
              (list_price[orders[i].product_id] + orders[i].customization_fee)
                 * orders[i].quantity

\* The price of the product of an order with every surcharge was raised.
TotalFollowsListPrice ==
    /\ Len(orders) = 1
    /\ last.op = "set_list_price"
    /\ last.vals = [product_id |-> orders[1].product_id, list_price |-> 20]
    /\ orders[1].customization_fee = 30
    /\ orders[1].quantity = 2
    /\ orders[1].total_price = (20 + 30) * 2

\* C4: a create or write that gives a quantity <= 0 fails with the quantity
\* message and changes no order: the table is as it was.
QuantityRejectedWhole ==
    [][(/\ last'.op \in {"create", "write"}
        /\ "quantity" \in DOMAIN last'.vals
        /\ last'.vals["quantity"] <= 0)
       => (last'.error = QuantityError /\ orders' = orders)]_vars

\* A write of a new text together with quantity 0 was refused, and the text
\* stored is still the old one.
RefusedWriteLeftText ==
    /\ Len(orders) = 1
    /\ last.op = "write"
    /\ last.error = QuantityError
    /\ "custom_text" \in DOMAIN last.vals
    /\ orders[1].custom_text # last.vals["custom_text"]
    /\ orders[1].customization_fee = 15

\* C5: a create or write that gives a custom_text of more than 50 characters
\* is rejected, with the text message when its quantity is valid.
LongTextRejected ==
    (/\ last.op \in {"create", "write"}
     /\ "custom_text" \in DOMAIN last.vals
     /\ Len(last.vals["custom_text"]) > 50)
    => /\ last.error # Ok
       /\ Get(last.vals, "quantity", 1) > 0 => last.error = CustomTextError

\* C6: the fee is 5 for a text, plus 10 for a design file, plus the size's
\* surcharge (0 for a size outside the table), each part on its own.
FeeIsSumOfParts ==
    last.op = "_compute_customization_fee" =>
        orders[1].customization_fee =
            ExpectedFee(orders[1].custom_text, orders[1].design_file,
                        orders[1].size)

\* The fee of a text and a design file on a size outside the table.
FeeOfUnknownSize ==
    /\ last.op = "_compute_customization_fee"
    /\ orders[1].size = "xxl"
    /\ orders[1].custom_text = ShortText
    /\ orders[1].design_file = DesignBytes
    /\ orders[1].customization_fee = 15

\* C7: the name of an order is never blank and never changes after create.
ReferenceSetOnce ==
    [][\A i \in 1..Len(orders') :
          /\ orders'[i].name # ""
          /\ i <= Len(orders) => orders'[i].name = orders[i].name]_vars

\* C8: a create to which the sequence hands a number advances the counter
\* exactly once when it creates the order and leaves the counter as it was
\* when it fails: the advances equal the orders created.
CounterAdvancedOncePerCreate ==
    [][(last'.op = "create" /\ last'.got # "")
       => seq_next' - seq_next = Len(orders') - Len(orders)]_vars

\* C9: a create without a name, or with the name 'New', that succeeds gives
\* the order the reference next_by_code returned, or 'New' when it returned
\* nothing; a missing answer alone never fails the create; the orders named
\* by the sequence have non-empty, pairwise distinct names.
SequenceReferences ==
    /\ (last.op = "create" /\ Get(last.vals, "name", "New") = "New") =>
          /\ last.error = Ok =>
                orders[last.id].name = (IF last.got # "" THEN last.got ELSE "New")
          /\ Get(last.vals, "quantity", 1) > 0 => last.error = Ok
    /\ \A i \in by_sequence :
          /\ orders[i].name # ""
          /\ \A j \in by_sequence : i # j => orders[i].name # orders[j].name

\* Two orders were named by the sequence.
TwoSequenceReferences ==
    /\ by_sequence = {1, 2}
    /\ last.op = "create"
    /\ last.got # ""
    /\ orders[2].name = last.got

\* C10 as stated: a successful create gives an order in state draft with its
\* fee and total computed from the values supplied.
CreateStartsInDraft ==
    (last.op = "create" /\ last.error = Ok) =>
        /\ orders[last.id].state = "draft"
        /\ orders[last.id].customization_fee =
              ExpectedFee(Get(last.vals, "custom_text", ""),
                          Get(last.vals, "design_file", ""),
                          Get(last.vals, "size", "medium"))
        /\ orders[last.id].total_price =
              (list_price[last.vals["product_id"]]
                 + orders[last.id].customization_fee)
                 * Get(last.vals, "quantity", 1)

\* C10 amended: a successful create gives an order in the state supplied, or
\* in draft when none is supplied, with its fee and total computed from the
\* values supplied.
CreateStateAndPrices ==
    (last.op = "create" /\ last.error = Ok) =>
        /\ orders[last.id].state = Get(last.vals, "state", "draft")
        /\ orders[last.id].customization_fee =
              ExpectedFee(Get(last.vals, "custom_text", ""),
                          Get(last.vals, "design_file", ""),
                          Get(last.vals, "size", "medium"))
        /\ orders[last.id].total_price =
              (list_price[last.vals["product_id"]]
                 + orders[last.id].customization_fee)
                 * Get(last.vals, "quantity", 1)

\* An order was created in state done with every surcharge.
CreatedInSuppliedState ==
    /\ last.op = "create"
    /\ last.error = Ok
    /\ Get(last.vals, "state", "draft") = "done"
    /\ orders[last.id].state = "done"
    /\ orders[last.id].customization_fee = 30
    /\ orders[last.id].total_price = (10 + 30) * 2
====
